---- MODULE Spec2Model ----
(***************************************************************************)
(* Model of RecoBot's interpretation-and-ranking pipeline (src/chatbot.py):*)
(* the command loop of main, the vocabulary and stop-word stores, the      *)
(* request analysis (analyze_request, get_significant_words, extract_year) *)
(* and the catalog query of search_movies_optimized.                       *)
(*                                                                         *)
(* Texts are TLA+ strings handled character by character (Len, SubSeq,     *)
(* \o), so tokenisation, substring tests and the year patterns are         *)
(* computed as the Python code computes them.  Real numbers are fixed      *)
(* point: vote_average and popularity are held in tenths, rating_min in    *)
(* tenths, weighted_score in ten-thousandths.  An optional value (Python   *)
(* None or a value) is the empty sequence or a one-element sequence.       *)
(***************************************************************************)
EXTENDS Integers, Sequences, FiniteSets, TLC

(***************************************************************************)
(* Bounds of the model.                                                    *)
(***************************************************************************)
MaxWords == 2        \* pieces per chat request text
MaxAdmin == 1        \* successful 'add word' / 'add stop' commands per run
MaxRows == 6         \* rows of the largest catalog
MaxPieces == 2       \* pieces per text given to analyze_request on its own
MaxShown == 2        \* display records given to generate_response on its own
MaxUpserts == 3      \* successful 'add word' commands of a vocabulary run

(***************************************************************************)
(* Python values.                                                          *)
(***************************************************************************)
None == <<>>
Some(v) == <<v>>
\* Python truthiness of an optional number (None and 0 are falsy)
Truthy(o) == o # None /\ o[1] # 0

Min(a, b) == IF a <= b THEN a ELSE b

(***************************************************************************)
(* Characters and strings.                                                 *)
(***************************************************************************)
Char(s, i) == SubSeq(s, i, i)

Digits == {"0", "1", "2", "3", "4", "5", "6", "7", "8", "9"}
LowerLetters == "abcdefghijklmnopqrstuvwxyz"
UpperLetters == "ABCDEFGHIJKLMNOPQRSTUVWXYZ"
AccentLetters == {"é", "è", "ê", "à", "â", "ç", "ù", "û", "î", "ô"}

LowerSet == {Char(LowerLetters, i) : i \in 1..26}
UpperSet == {Char(UpperLetters, i) : i \in 1..26}

\* the lower-case letter of every ASCII upper-case letter
RECURSIVE LowerTable(_)
LowerTable(i) == IF i = 0 THEN <<>>
                 ELSE (Char(UpperLetters, i) :> Char(LowerLetters, i)) @@ LowerTable(i - 1)

ToLower == LowerTable(26)

\* re's \w: letters, digits and the underscore
WordChars == LowerSet \cup UpperSet \cup AccentLetters \cup Digits \cup {"_"}

IsWordChar(c) == c \in WordChars

LowerChar(c) == IF c \in UpperSet THEN ToLower[c] ELSE c

\* str.lower()
RECURSIVE lower(_)
lower(s) == IF s = "" THEN ""
            ELSE LowerChar(Char(s, 1)) \o lower(SubSeq(s, 2, Len(s)))

\* str.isdigit()
isdigit(s) == Len(s) > 0 /\ \A i \in 1..Len(s) : Char(s, i) \in Digits

\* kw in text
Contains(text, kw) ==
    \E i \in 1..(Len(text) - Len(kw) + 1) : SubSeq(text, i, i + Len(kw) - 1) = kw

\* str.startswith
startswith(s, p) == Len(s) >= Len(p) /\ SubSeq(s, 1, Len(p)) = p

\* length of the longest run of word characters starting at position i
RECURSIVE RunLen(_, _)
RunLen(s, i) == IF i > Len(s) \/ ~IsWordChar(Char(s, i)) THEN 0
                ELSE 1 + RunLen(s, i + 1)

\* re.findall(r'\b\w+\b', s): the maximal runs of word characters, in order
RECURSIVE FindWordsFrom(_, _)
FindWordsFrom(s, i) ==
    IF i > Len(s) THEN <<>>
    ELSE IF ~IsWordChar(Char(s, i)) THEN FindWordsFrom(s, i + 1)
    ELSE LET n == RunLen(s, i)
         IN  <<SubSeq(s, i, i + n - 1)>> \o FindWordsFrom(s, i + n)

findall_words(s) == FindWordsFrom(s, 1)

\* ' '.join(seq)
RECURSIVE join(_)
join(seq) == IF seq = <<>> THEN ""
             ELSE IF Len(seq) = 1 THEN seq[1]
             ELSE seq[1] \o " " \o join(Tail(seq))

Range(seq) == {seq[i] : i \in 1..Len(seq)}


(***************************************************************************)
(* The keyword tables of chatbot.py, in the order the dictionaries list    *)
(* them (Python dictionaries iterate in insertion order).                  *)
(***************************************************************************)
GENRE_MAPPING ==
    << <<"action", <<"action", "combat", "explosion", "aventure">> >>,
       <<"comédie", <<"comédie", "humour", "drôle", "rire">> >>,
       <<"drame", <<"drame", "dramatique", "émouvant">> >>,
       <<"science-fiction", <<"science-fiction", "sci-fi", "futur", "espace">> >>,
       <<"horreur", <<"horreur", "épouvante", "peur", "effrayant">> >>,
       <<"thriller", <<"thriller", "suspense", "mystère">> >>,
       <<"romance", <<"romance", "amour", "romantique">> >>,
       <<"animation", <<"animation", "animé", "dessin animé">> >>,
       <<"documentaire", <<"documentaire", "docu">> >>,
       <<"famille", <<"famille", "familial", "enfant", "jeunesse">> >>,
       <<"guerre", <<"guerre", "militaire", "bataille", "soldat", "armée", "combat">> >> >>

THEME_MAPPING ==
    << <<"voiture", <<"voiture", "course", "automobile", "racing", "fast", "furious", "vitesse", "pilote">> >>,
       <<"super-héros", <<"super-héros", "superhéros", "marvel", "dc", "comics", "superman", "batman", "avengers">> >>,
       <<"sport", <<"sport", "football", "basketball", "tennis", "boxe", "athlète", "champion">> >>,
       <<"guerre", <<"guerre", "militaire", "bataille", "soldat", "armée", "combat">> >>,
       <<"fantasy", <<"fantasy", "magie", "dragon", "sorcier", "magique", "médiéval">> >>,
       <<"western", <<"western", "cowboy", "far west", "ranch", "shérif">> >>,
       <<"espionnage", <<"espion", "agent secret", "cia", "mission", "infiltration">> >>,
       <<"catastrophe", <<"catastrophe", "désastre", "apocalypse", "tsunami", "tremblement", "météorite">> >>,
       <<"musical", <<"musical", "musique", "danse", "chant", "concert", "comédie musicale">> >>,
       <<"historique", <<"historique", "histoire", "période", "époque", "biographie">> >> >>

QUALITY_INDICATORS ==
    [populaire |-> <<"populaire", "connu", "célèbre", "succès", "blockbuster">>,
     critique  |-> <<"acclamé", "critique", "récompense", "oscar", "césar">>,
     inconnu   |-> <<"méconnu", "rare", "confidentiel", "découverte", "indie">>]

STOP_WORDS ==
    {"le", "la", "les", "un", "une", "des", "ce", "ces", "sa", "ses", "son", "mes", "mon", "ma",
     "et", "ou", "mais", "donc", "car", "ni", "or", "que", "qui", "quoi", "dont", "où",
     "dans", "sur", "sous", "par", "pour", "en", "vers", "avec", "sans", "de", "à",
     "je", "tu", "il", "elle", "nous", "vous", "ils", "elles", "on",
     "être", "avoir", "faire", "dire", "aller", "voir", "vouloir", "pouvoir", "falloir",
     "plus", "moins", "très", "bien", "mal", "tout", "tous", "toute", "toutes",
     "autre", "autres", "même", "aussi", "alors", "après", "avant",
     "oui", "non", "peut", "comme", "entre", "chaque", "puis",
     "est", "sont", "sera", "été", "était", "étaient", "soit", "suis", "sommes",
     "film", "films", "histoire", "année", "années", "fois", "fait",
     "cette", "cet", "celui", "celle", "ceux", "celles"}

(***************************************************************************)
(* The vocabulary store: the table significant_words, keyed by word.       *)
(***************************************************************************)
EmptyTable == <<>>

\* the upsert keeping the entry the table already has for the word
InsertOrIgnore(table, word, category, subcategory, weight) ==
    table @@ (word :> [category |-> category, subcategory |-> subcategory, weight |-> weight])

\* INSERT OR REPLACE INTO significant_words (word, category, subcategory, weight)
InsertOrReplace(table, word, category, subcategory, weight) ==
    (word :> [category |-> category, subcategory |-> subcategory, weight |-> weight]) @@ table

\* the rows one mapping entry adds to words_to_insert
KeywordRows(entry, category, weight) ==
    [i \in 1..Len(entry[2]) |-> <<entry[2][i], category, entry[1], weight>>]

RECURSIVE MappingRows(_, _, _)
MappingRows(mapping, category, weight) ==
    IF mapping = <<>> THEN <<>>
    ELSE KeywordRows(Head(mapping), category, weight)
         \o MappingRows(Tail(mapping), category, weight)

\* words_to_insert with the theme rows before the genre rows
words_to_insert_themes_first ==
    MappingRows(THEME_MAPPING, "theme", 1) \o MappingRows(GENRE_MAPPING, "genre", 2)

\* lines 153-165: the rows of GENRE_MAPPING, then those of THEME_MAPPING
words_to_insert == MappingRows(GENRE_MAPPING, "genre", 2) \o MappingRows(THEME_MAPPING, "theme", 1)

\* cursor.executemany of the upsert over a list of rows, in list order (the
\* row just written is in the table when the next one is taken)
RECURSIVE executemany(_, _)
executemany(table, rows) ==
    IF rows = <<>> THEN table
    ELSE LET written == InsertOrReplace(table, rows[1][1], rows[1][2], rows[1][3], rows[1][4])
         IN  IF rows[1][1] \in DOMAIN written
             THEN executemany(written, Tail(rows))
             ELSE written

initialize_significant_words == executemany(EmptyTable, words_to_insert)

initialize_stop_words == STOP_WORDS

(***************************************************************************)
(* extract_year (chatbot.py 345-361).                                      *)
(***************************************************************************)
current_year == 2026

year_patterns == <<"de ", "en ", "année ", "">>

DigitVal(c) == CHOOSE n \in 0..9 : Char("0123456789", n + 1) = c

\* int() of a string of digits
RECURSIVE int(_)
int(s) == IF s = "" THEN 0
          ELSE 10 * int(SubSeq(s, 1, Len(s) - 1)) + DigitVal(Char(s, Len(s)))

\* the pattern  prefix(\d{4})  matches at position i of text
MatchesAt(text, prefix, i) ==
    /\ i + Len(prefix) + 3 <= Len(text)
    /\ SubSeq(text, i, i + Len(prefix) - 1) = prefix
    /\ isdigit(SubSeq(text, i + Len(prefix), i + Len(prefix) + 3))

\* re.search(pattern, text): group 1 of the leftmost match, or None
re_search(prefix, text) ==
    LET hits == {i \in 1..Len(text) : MatchesAt(text, prefix, i)}
    IN  IF hits = {} THEN None
        ELSE LET i == CHOOSE h \in hits : \A g \in hits : h <= g
             IN  Some(SubSeq(text, i + Len(prefix), i + Len(prefix) + 3))

\* YearInRange without the upper bound
YearInRangeNoUpper(year) == 1900 <= year

\* the test of line 359
YearInRange(year) == 1900 <= year /\ year <= current_year

RECURSIVE ExtractYearFrom(_, _)
ExtractYearFrom(text, k) ==
    IF k > Len(year_patterns) THEN None
    ELSE LET match == re_search(year_patterns[k], text)
         IN  IF match # None /\ YearInRange(int(match[1]))
             THEN Some(int(match[1]))
             ELSE ExtractYearFrom(text, k + 1)

extract_year(text) == ExtractYearFrom(text, 1)

(***************************************************************************)
(* get_significant_words (chatbot.py 198-230).                             *)
(***************************************************************************)
\* IsSignificant without the stop-word test
IsSignificantNoStops(word, stops) == Len(word) > 2 /\ ~isdigit(word)

\* the test of lines 211-213, against the stop words read from the store
IsSignificant(word, stops) == Len(word) > 2 /\ word \notin stops /\ ~isdigit(word)

\* FilteredWords handing every token to the lookup
FilteredWordsAll(text, stops) == findall_words(lower(text))

\* lines 202-214: the tokens handed to the vocabulary lookup
FilteredWords(text, stops) ==
    LET Keep(word) == IsSignificant(word, stops)
    IN  SelectSeq(findall_words(lower(text)), Keep)

\* every order of a finite set, as sequences without repetition
RECURSIVE Orderings(_)
Orderings(S) ==
    IF S = {} THEN {<<>>}
    ELSE UNION {{<<x>> \o t : t \in Orderings(S \ {x})} : x \in S}

\* cursor.fetchall() of the lookup: one row per selected word; the query has
\* no ORDER BY, so the rows may come in any order
LookupResults(table, filtered_words) ==
    {[i \in 1..Len(o) |-> [word |-> o[i], category |-> table[o[i]].category,
                           subcategory |-> table[o[i]].subcategory,
                           weight |-> table[o[i]].weight]] :
        o \in Orderings({w \in Range(filtered_words) : w \in DOMAIN table})}

\* extract_significant_words (chatbot.py 280-296): filters against STOP_WORDS
extract_significant_words(text) ==
    IF text = "" THEN <<>>
    ELSE LET Keep(word) == IsSignificant(word, STOP_WORDS)
         IN  SelectSeq(findall_words(lower(text)), Keep)

(***************************************************************************)
(* analyze_request (chatbot.py 232-274).                                   *)
(***************************************************************************)
DefaultFilters ==
    [genres |-> <<>>, themes |-> <<>>, mood |-> None, period |-> None,
     year |-> None, rating_min |-> None, sort_by |-> "weighted_score",
     keywords |-> <<>>, prefer_unknown |-> FALSE, exclude_genres |-> <<>>]

\* AddWordInfo with the two categories exchanged
AddWordInfoSwapped(filters, word_info) ==
    LET g == IF word_info.category = "theme" /\ word_info.subcategory \notin Range(filters.genres)
             THEN Append(filters.genres, word_info.subcategory) ELSE filters.genres
        t == IF word_info.category = "genre" /\ word_info.subcategory \notin Range(filters.themes)
             THEN Append(filters.themes, word_info.subcategory) ELSE filters.themes
    IN  [filters EXCEPT !.genres = g, !.themes = t,
                        !.keywords = Append(filters.keywords, word_info.word)]

\* one iteration of the loop of lines 255-262
AddWordInfo(filters, word_info) ==
    LET g == IF word_info.category = "genre" /\ word_info.subcategory \notin Range(filters.genres)
             THEN Append(filters.genres, word_info.subcategory) ELSE filters.genres
        t == IF word_info.category # "genre" /\ word_info.category = "theme"
                /\ word_info.subcategory \notin Range(filters.themes)
             THEN Append(filters.themes, word_info.subcategory) ELSE filters.themes
    IN  [filters EXCEPT !.genres = g, !.themes = t,
                        !.keywords = Append(filters.keywords, word_info.word)]

RECURSIVE AddWordInfos(_, _)
AddWordInfos(filters, significant_words) ==
    IF significant_words = <<>> THEN filters
    ELSE AddWordInfos(AddWordInfo(filters, Head(significant_words)), Tail(significant_words))

\* any(keyword in text for keyword in QUALITY_INDICATORS[group])
HasIndicator(text, group) ==
    \E i \in 1..Len(QUALITY_INDICATORS[group]) : Contains(text, QUALITY_INDICATORS[group][i])

\* QualityFilters with the 'critique' group tested before the 'populaire' one
QualityFiltersCritiqueFirst(filters, text) ==
    IF HasIndicator(text, "critique")
    THEN [filters EXCEPT !.sort_by = "rating", !.rating_min = Some(70)]
    ELSE IF HasIndicator(text, "populaire")
    THEN [filters EXCEPT !.sort_by = "popularity"]
    ELSE IF HasIndicator(text, "inconnu")
    THEN [filters EXCEPT !.prefer_unknown = TRUE, !.rating_min = Some(65)]
    ELSE filters

\* lines 265-272
QualityFilters(filters, text) ==
    IF HasIndicator(text, "populaire")
    THEN [filters EXCEPT !.sort_by = "popularity"]
    ELSE IF HasIndicator(text, "critique")
    THEN [filters EXCEPT !.sort_by = "rating", !.rating_min = Some(70)]
    ELSE IF HasIndicator(text, "inconnu")
    THEN [filters EXCEPT !.prefer_unknown = TRUE, !.rating_min = Some(65)]
    ELSE filters

\* lines 248-251
YearFilters(filters, text) ==
    LET year == extract_year(text)
    IN  IF Truthy(year) THEN [filters EXCEPT !.year = year] ELSE filters

\* analyze_request reading the period 'classique' from the text
analyze_request_with_period(prompt, significant_words) ==
    LET text == lower(prompt)
        found == QualityFilters(AddWordInfos(YearFilters(DefaultFilters, text),
                                             significant_words), text)
    IN  IF Contains(text, "classique")
        THEN [found EXCEPT !.period = Some("classique")]
        ELSE found

\* analyze_request, given the rows the vocabulary lookup returned
analyze_request(prompt, significant_words) ==
    LET text == lower(prompt)
    IN  QualityFilters(AddWordInfos(YearFilters(DefaultFilters, text), significant_words), text)

(***************************************************************************)
(* The catalog: the table movies (movie_db.py 439-449).  A row is held     *)
(* with vote_average and popularity in tenths; release_year is optional    *)
(* (NULL when the imported film had no release date).                      *)
(***************************************************************************)
Row(title, overview, release_year, genres, vote_average, vote_count, popularity) ==
    [title |-> title, overview |-> overview, release_year |-> release_year,
     genres |-> genres, vote_average |-> vote_average, vote_count |-> vote_count,
     popularity |-> popularity]

\* LOWER(x) of SQLite folds the ASCII letters only
SqlLower(s) == lower(s)

\* x LIKE pattern of SQLite: % is any run, _ any one character, and the
\* ASCII letters compare without case
RECURSIVE Like(_, _)
Like(s, pattern) ==
    IF pattern = "" THEN s = ""
    ELSE IF Char(pattern, 1) = "%"
    THEN \/ Like(s, SubSeq(pattern, 2, Len(pattern)))
         \/ s # "" /\ Like(SubSeq(s, 2, Len(s)), pattern)
    ELSE /\ s # ""
         /\ \/ Char(pattern, 1) = "_"
            \/ LowerChar(Char(s, 1)) = LowerChar(Char(pattern, 1))
         /\ Like(SubSeq(s, 2, Len(s)), SubSeq(pattern, 2, Len(pattern)))

\* THEME_MAPPING.get(theme, [])
ThemeWords(theme) ==
    IF \E i \in 1..Len(THEME_MAPPING) : THEME_MAPPING[i][1] = theme
    THEN THEME_MAPPING[CHOOSE i \in 1..Len(THEME_MAPPING) : THEME_MAPPING[i][1] = theme][2]
    ELSE <<>>

\* lines 374-380
GenreClause(row, filters) ==
    filters.genres # <<>> =>
        \E g \in 1..Len(filters.genres) :
            Like(SqlLower(row.genres), "%" \o lower(filters.genres[g]) \o "%")

\* lines 383-391: no clause is added when no requested theme has words
ThemeClause(row, filters) ==
    LET theme_conditions ==
            UNION {{<<t, w>> : w \in 1..Len(ThemeWords(filters.themes[t]))} :
                      t \in 1..Len(filters.themes)}
    IN  (filters.themes # <<>> /\ theme_conditions # {}) =>
            \E c \in theme_conditions :
                LET word == ThemeWords(filters.themes[c[1]])[c[2]]
                IN  \/ Like(SqlLower(row.overview), "%" \o lower(word) \o "%")
                    \/ Like(SqlLower(row.title), "%" \o lower(word) \o "%")


\* YearClause with the 'recent' range applied whenever no year is set
YearClauseRecentDefault(row, filters) ==
    IF Truthy(filters.year)
    THEN row.release_year # None /\ row.release_year[1] = filters.year[1]
    ELSE IF filters.period = Some("classique")
    THEN row.release_year # None /\ row.release_year[1] <= current_year - 20
    ELSE row.release_year # None /\ row.release_year[1] >= current_year - 2

\* lines 394-402; a comparison with a NULL release_year is not true
YearClause(row, filters) ==
    IF Truthy(filters.year)
    THEN row.release_year # None /\ row.release_year[1] = filters.year[1]
    ELSE IF filters.period = Some("recent")
    THEN row.release_year # None /\ row.release_year[1] >= current_year - 2
    ELSE IF filters.period = Some("classique")
    THEN row.release_year # None /\ row.release_year[1] <= current_year - 20
    ELSE TRUE

\* RatingClause keeping only little-known films for prefer_unknown
RatingClausePreferUnknown(row, filters) ==
    /\ Truthy(filters.rating_min) => row.vote_average >= filters.rating_min[1]
    /\ filters.prefer_unknown => row.popularity <= 100

\* lines 405-407
RatingClause(row, filters) ==
    Truthy(filters.rating_min) => row.vote_average >= filters.rating_min[1]

\* Where without the release-year clause
WhereNoYearClause(row, filters) ==
    /\ GenreClause(row, filters)
    /\ ThemeClause(row, filters)
    /\ RatingClause(row, filters)

\* line 410: the conjunction of the clauses, or 1=1
Where(row, filters) ==
    /\ GenreClause(row, filters)
    /\ ThemeClause(row, filters)
    /\ YearClause(row, filters)
    /\ RatingClause(row, filters)


\* weighted_score without the CAST: vote_count / 1000 as an integer division
weighted_score_intdiv(row) ==
    row.vote_average * (row.vote_count \div 1000) * 1000 + 10 * row.popularity

\* line 415, in ten-thousandths:
\* vote_average * (CAST(vote_count AS FLOAT) / 1000.0) + popularity / 100.0
weighted_score(row) == row.vote_average * row.vote_count + 10 * row.popularity


\* OrderKey without the 'rating' branch
OrderKeyNoRating(row, sort_by) ==
    IF sort_by = "popularity" THEN row.popularity
    ELSE row.vote_average * row.vote_count + 10 * row.popularity

\* lines 419-423: the CASE expression of the ORDER BY
OrderKey(row, sort_by) ==
    IF sort_by = "popularity" THEN row.popularity
    ELSE IF sort_by = "rating" THEN row.vote_average
    ELSE weighted_score(row)

LIMIT == 5

\* the rowids the WHERE clause keeps
Matching(table, filters) == {i \in 1..Len(table) : Where(table[i], filters)}

\* ORDER BY key DESC LIMIT k over the rowids S: every order the sort may
\* produce, rows of equal key coming in any order
RECURSIVE OrderByLimit(_, _, _, _)
OrderByLimit(table, S, sort_by, k) ==
    IF k = 0 \/ S = {} THEN {<<>>}
    ELSE LET top == {i \in S : \A j \in S :
                        OrderKey(table[j], sort_by) <= OrderKey(table[i], sort_by)}
         IN  UNION {{<<i>> \o t : t \in OrderByLimit(table, S \ {i}, sort_by, k - 1)} :
                        i \in top}

\* a fetched row: the columns of SELECT *, the computed weighted_score, and
\* the rowid (not a column of the result; kept to tell equal rows apart)
Fetched(table, i) ==
    [rowid |-> i, title |-> table[i].title, overview |-> table[i].overview,
     release_year |-> table[i].release_year, genres |-> table[i].genres,
     vote_average |-> table[i].vote_average, vote_count |-> table[i].vote_count,
     popularity |-> table[i].popularity, weighted_score |-> weighted_score(table[i])]

\* FetchAll with a limit one too large
FetchAllOffByOne(table, filters) ==
    {[n \in 1..Len(o) |-> Fetched(table, o[n])] :
        o \in OrderByLimit(table, Matching(table, filters), filters.sort_by, LIMIT + 1)}

\* lines 428-429: cursor.fetchall() of the final query
FetchAll(table, filters) ==
    {[n \in 1..Len(o) |-> Fetched(table, o[n])] :
        o \in OrderByLimit(table, Matching(table, filters), filters.sort_by, LIMIT)}

\* rows are sqlite3.Row objects (movie_db.py 414), which have no get method
RowHasGet == FALSE

\* format_movie_result (lines 442-458): movie.get raises AttributeError on a
\* sqlite3.Row, the except clause logs it and the function returns None
format_movie_result(movie) ==
    IF RowHasGet
    THEN Some([titre |-> movie.title, annee |-> movie.release_year,
               genre |-> movie.genres, note |-> movie.vote_average,
               vote_count |-> movie.vote_count, popularite |-> movie.popularity,
               description |-> movie.overview, weighted_score |-> movie.weighted_score])
    ELSE None

\* lines 432-435: the list search_movies_optimized returns for fetched rows
FormatAll(movies) == [n \in 1..Len(movies) |-> format_movie_result(movies[n])]

\* generate_response (lines 460-491): the apology for an empty list, else
\* the listing; subscripting a None element raises TypeError
generate_response(movies_info) ==
    IF movies_info = <<>> THEN "no_results"
    ELSE IF \E n \in 1..Len(movies_info) : movies_info[n] = None THEN "TypeError"
    ELSE "results"

\* Description with the cut made at 200 characters
DescriptionCut200(movie) ==
    IF Len(movie.description) > 200
    THEN SubSeq(movie.description, 1, 200) \o "..."
    ELSE movie.description

\* lines 485-487: description[:197] + "..." for a description of more than
\* 200 characters
Description(movie) ==
    IF Len(movie.description) > 200
    THEN SubSeq(movie.description, 1, 197) \o "..."
    ELSE movie.description

\* the descriptions the loop of lines 477-489 puts in the response; none
\* when the function returns at line 463 or raises at line 478
Descriptions(movies_info) ==
    IF generate_response(movies_info) = "results"
    THEN [n \in 1..Len(movies_info) |-> Description(movies_info[n][1])]
    ELSE <<>>

(***************************************************************************)
(* str.split of the command parsing in main (lines 613 and 624).           *)
(***************************************************************************)
\* length of the run of non-blank characters starting at position i
RECURSIVE FieldLen(_, _)
FieldLen(s, i) == IF i > Len(s) \/ Char(s, i) = " " THEN 0
                  ELSE 1 + FieldLen(s, i + 1)

\* s.split(maxsplit=n) from position i; n < 0 splits at every blank run
RECURSIVE SplitFrom(_, _, _)
SplitFrom(s, i, n) ==
    IF i > Len(s) THEN <<>>
    ELSE IF Char(s, i) = " " THEN SplitFrom(s, i + 1, n)
    ELSE IF n = 0 THEN <<SubSeq(s, i, Len(s))>>
    ELSE LET k == FieldLen(s, i)
         IN  <<SubSeq(s, i, i + k - 1)>> \o SplitFrom(s, i + k, n - 1)

split(s, maxsplit) == SplitFrom(s, 1, maxsplit)

(***************************************************************************)
(* Inputs of the model.                                                    *)
(***************************************************************************)
Pieces == {"action", "d'Action,", "film", "un", "dc", "zz", "sport", "rare", "2000", "sci-fi"}

\* the request texts: up to MaxWords pieces separated by blanks
RequestTexts == {join(ps) : ps \in UNION {[1..k -> Pieces] : k \in 0..MaxWords}}

\* the pieces and texts analyze_request is given when called on its own
AnalyzePieces ==
    {"action", "drame", "film", "combat", "guerre", "connu", "Oscar", "critique", "rare", "méconnu",
     "rarement", "indie", "de", "en", "année", "1899", "2000", "2099", "20001"}

AnalyzeTexts == {join(ps) : ps \in UNION {[1..k -> AnalyzePieces] : k \in 0..MaxPieces}}

AdminWords == {"action", "zz"}
AdminCategories == {"genre", "theme"}
AdminSubcategories == {"action", "polar"}
AdminStops == {"action", "rare"}

AddWordInputs ==
    {"add word " \o w \o " " \o c \o " " \o sc :
        w \in AdminWords, c \in AdminCategories, sc \in AdminSubcategories}
    \cup {"add word zz", "Add Word zz genre"}

AddStopInputs == {"add stop " \o w : w \in AdminStops} \cup {"add stop ", "add stop zz film"}

\* the two commands typed without any argument
BareCommands == {"add word", "add stop"}

\* the rows the catalogs of the model are cut from
Pool ==
    << Row("Fast Cars", "une course de voiture", Some(2000), "Action, Thriller", 80, 1000, 500),
       Row("Rocky", "un champion de boxe", Some(1976), "Drame", 81, 3000, 300),
       Row("Rire", "humour", Some(2025), "Comédie", 65, 200, 900),
       Row("Guerre totale", "une bataille", None, "Action, Guerre", 70, 500, 500),
       Row("Docu", "sport et musique", Some(2000), "Documentaire", 70, 10, 20),
       Row("Action 2", "explosion", Some(2000), "action", 66, 4000, 100),
       Row("Old", "western classique", Some(1950), "Western", 90, 50, 10),
       Row("Recent", "le futur", Some(2026), "Science-Fiction", 55, 5, 5) >>

\* every run of at most MaxRows consecutive rows of the pool
Catalogs ==
    {SubSeq(Pool, w[1], w[2]) :
        w \in {v \in (1..Len(Pool)) \X (0..Len(Pool)) :
                  v[2] >= v[1] - 1 /\ v[2] - v[1] + 1 <= MaxRows}}

\* the catalogs of the command-loop specification: none or a full one
LoopCatalogs == {<<>>, SubSeq(Pool, 1, Min(MaxRows, Len(Pool)))}

(***************************************************************************)
(* State.                                                                  *)
(***************************************************************************)
VARIABLES
    significant_words,  \* the vocabulary store (table significant_words)
    stop_words,         \* the stop-word store (table stop_words)
    movies_table,       \* the catalog (table movies), in rowid order
    pc,                 \* "prompt": main waits at input(); "replied": a command
                        \* was handled; "stopped": quit; "crashed": an exception
                        \* left main; "call": a function is about to be called
                        \* on its own; "returned": search_movies_optimized has
                        \* returned; "analyzed": analyze_request has returned
    admin_count,        \* successful 'add word' / 'add stop' commands so far
    user_input,         \* the command line read last
    filtered_words,     \* get_significant_words: tokens given to the lookup
    filters,            \* the filters of the request
    query_words,        \* search_movies_optimized: query_words (line 367)
    movies,             \* search_movies_optimized: the rows fetched (line 429)
    movies_info,        \* the list search_movies_optimized returned
    descriptions,       \* generate_response: the descriptions put in the
                        \* response (line 488), one per result
    response,           \* what the command printed
    update_run          \* update_database of mapping.py: its locals (lines
                        \* 217-220), which movie the loop is at, where the
                        \* run stands and what each iteration did so far

vars == <<significant_words, stop_words, movies_table, pc, admin_count, user_input,
          filtered_words, filters, query_words, movies, movies_info, descriptions,
          response, update_run>>

stores == <<significant_words, stop_words, movies_table>>

request == <<filtered_words, filters, query_words, movies, movies_info, descriptions>>

\* the request-scoped values before any request
NoRequest ==
    /\ filtered_words = <<>>
    /\ filters = DefaultFilters
    /\ query_words = <<>>
    /\ movies = <<>>
    /\ movies_info = <<>>
    /\ descriptions = <<>>

\* update_database has not been started
NoUpdateRun ==
    [state |-> "idle", existing_movies |-> <<>>, position |-> 0,
     updates_count |-> 0, errors_count |-> 0, outcomes |-> <<>>]

\* initialize_db (lines 100-148) on a fresh database: both tables are empty
\* and get seeded
Init ==
    /\ significant_words = initialize_significant_words
    /\ stop_words = initialize_stop_words
    /\ movies_table \in LoopCatalogs
    /\ pc = "prompt"
    /\ admin_count = 0
    /\ user_input = ""
    /\ NoRequest
    /\ response = ""
    /\ update_run = NoUpdateRun

(***************************************************************************)
(* search_movies_optimized (lines 363-440), as chat_with_bot and a direct  *)
(* caller run it.                                                          *)
(***************************************************************************)
search_movies_optimized(f) ==
    /\ query_words' = extract_significant_words(join(f.keywords))
    /\ \E fetched \in FetchAll(movies_table, f) :
          /\ movies' = fetched
          /\ movies_info' = FormatAll(fetched)

(***************************************************************************)
(* The command loop of main (lines 594-632): one action per branch.        *)
(***************************************************************************)
\* line 598
Quit ==
    /\ pc = "prompt"
    /\ \E input \in {"quit", "QUIT"} :
          /\ lower(input) = "quit"
          /\ user_input' = input
    /\ pc' = "stopped"
    /\ response' = ""
    /\ UNCHANGED <<stores, admin_count, request>>
    /\ UNCHANGED update_run

\* lines 601-603: list_all_movies only reads the catalog
List ==
    /\ pc = "prompt"
    /\ \E input \in {"list"} :
          /\ lower(input) # "quit" /\ lower(input) = "list"
          /\ user_input' = input
    /\ pc' = "replied"
    /\ response' = "list"
    /\ UNCHANGED <<stores, admin_count, request>>
    /\ UNCHANGED update_run

\* lines 611-621; at most limit commands succeed in a run of the model
AddWordCommand(limit) ==
    /\ pc = "prompt"
    /\ admin_count < limit
    /\ \E input \in AddWordInputs :
          LET user_input_lower == lower(input)
              parts == split(user_input_lower, 4)
          IN  /\ user_input_lower \notin {"quit", "list"}
              /\ ~startswith(user_input_lower, "list page ")
              /\ startswith(user_input_lower, "add word ")
              /\ user_input' = input
              /\ IF Len(parts) = 5
                 THEN /\ significant_words' =
                             InsertOrReplace(significant_words, parts[3], parts[4], parts[5], 1)
                      /\ admin_count' = admin_count + 1
                      /\ response' = "word_added"
                 ELSE /\ UNCHANGED <<significant_words, admin_count>>
                      /\ response' = "format_hint_word"
    /\ pc' = "replied"
    /\ UNCHANGED <<stop_words, movies_table, request>>
    /\ UNCHANGED update_run

AddWord == AddWordCommand(MaxAdmin)

\* an 'add stop' that could also take effect after the stop words of a
\* request have been read
AddStopDuringRequest ==
    /\ pc \in {"prompt", "lookup"}
    /\ admin_count < MaxAdmin
    /\ \E input \in AddStopInputs :
          LET parts == split(lower(input), -1)
          IN  /\ Len(parts) = 3
              /\ stop_words' = stop_words \cup {parts[3]}
              /\ admin_count' = admin_count + 1
              /\ IF pc = "prompt"
                 THEN user_input' = input /\ response' = "stop_added" /\ pc' = "replied"
                 ELSE UNCHANGED <<user_input, response, pc>>
    /\ UNCHANGED <<significant_words, movies_table, request>>
    /\ UNCHANGED update_run

\* lines 622-629
AddStop ==
    /\ pc = "prompt"
    /\ admin_count < MaxAdmin
    /\ \E input \in AddStopInputs :
          LET user_input_lower == lower(input)
              parts == split(user_input_lower, -1)
          IN  /\ user_input_lower \notin {"quit", "list"}
              /\ ~startswith(user_input_lower, "list page ")
              /\ ~startswith(user_input_lower, "add word ")
              /\ startswith(user_input_lower, "add stop ")
              /\ user_input' = input
              /\ IF Len(parts) = 3
                 THEN /\ stop_words' = stop_words \cup {parts[3]}
                      /\ admin_count' = admin_count + 1
                      /\ response' = "stop_added"
                 ELSE /\ UNCHANGED <<stop_words, admin_count>>
                      /\ response' = "format_hint_stop"
    /\ pc' = "replied"
    /\ UNCHANGED <<significant_words, movies_table, request>>
    /\ UNCHANGED update_run

\* Chat adding the tokens of the request to the stop-word store
ChatStoringTokens ==
    /\ pc = "prompt"
    /\ \E input \in RequestTexts \cup BareCommands :
          LET user_input_lower == lower(input)
          IN  /\ user_input_lower \notin {"quit", "list"}
              /\ ~startswith(user_input_lower, "list page ")
              /\ ~startswith(user_input_lower, "add word ")
              /\ ~startswith(user_input_lower, "add stop ")
              /\ user_input' = input
              /\ filtered_words' = FilteredWords(lower(input), stop_words)
              /\ \E rows \in LookupResults(significant_words, filtered_words') :
                    filters' = analyze_request(input, rows)
    /\ search_movies_optimized(filters')
    /\ response' = generate_response(movies_info')
    /\ descriptions' = Descriptions(movies_info')
    /\ pc' = IF response' = "TypeError" THEN "crashed" ELSE "replied"
    /\ stop_words' = stop_words \cup Range(filtered_words')
    /\ UNCHANGED <<significant_words, movies_table, admin_count>>
    /\ UNCHANGED update_run

\* lines 630-632: chat_with_bot (lines 493-515); an exception raised by
\* generate_response is not caught anywhere and ends main
Chat ==
    /\ pc = "prompt"
    /\ \E input \in RequestTexts \cup BareCommands :
          LET user_input_lower == lower(input)
          IN  /\ user_input_lower \notin {"quit", "list"}
              /\ ~startswith(user_input_lower, "list page ")
              /\ ~startswith(user_input_lower, "add word ")
              /\ ~startswith(user_input_lower, "add stop ")
              /\ user_input' = input
              /\ filtered_words' = FilteredWords(lower(input), stop_words)
              /\ \E rows \in LookupResults(significant_words, filtered_words') :
                    filters' = analyze_request(input, rows)
    /\ search_movies_optimized(filters')
    /\ response' = generate_response(movies_info')
    /\ descriptions' = Descriptions(movies_info')
    /\ pc' = IF response' = "TypeError" THEN "crashed" ELSE "replied"
    /\ UNCHANGED <<stores, admin_count>>
    /\ UNCHANGED update_run

\* the loop comes back to input(): the values of the last command are gone
Prompt ==
    /\ pc = "replied"
    /\ pc' = "prompt"
    /\ filtered_words' = <<>>
    /\ filters' = DefaultFilters
    /\ query_words' = <<>>
    /\ movies' = <<>>
    /\ movies_info' = <<>>
    /\ descriptions' = <<>>
    /\ user_input' = ""
    /\ response' = ""
    /\ UNCHANGED <<stores, admin_count>>
    /\ UNCHANGED update_run

Next == Quit \/ List \/ AddWord \/ AddStop \/ Chat \/ Prompt

Spec == Init /\ [][Next]_vars

(***************************************************************************)
(* The command loop with chat_with_bot taken one database access at a      *)
(* time: the read of the stop words, the vocabulary lookup, the catalog    *)
(* query, the response.  main is the only task of the event loop and       *)
(* input() is called after the awaited chat_with_bot has returned, so the  *)
(* commands are read at pc = "prompt" only.                                *)
(***************************************************************************)
StepPieces == {"action", "sport", "rare", "classique", "2000", "zz"}

StepTexts == {join(ps) : ps \in UNION {[1..k -> StepPieces] : k \in 0..MaxWords}}

\* lines 595-597 and 630-631, then analyze_request down to line 214: the
\* year, the tokens, the stop words read from the store, the filtering
ChatRead ==
    /\ pc = "prompt"
    /\ \E input \in StepTexts :
          LET user_input_lower == lower(input)
          IN  /\ user_input_lower \notin {"quit", "list"}
              /\ ~startswith(user_input_lower, "list page ")
              /\ ~startswith(user_input_lower, "add word ")
              /\ ~startswith(user_input_lower, "add stop ")
              /\ user_input' = input
              /\ filters' = YearFilters(DefaultFilters, lower(input))
              /\ filtered_words' = FilteredWords(lower(input), stop_words)
    /\ pc' = "lookup"
    /\ UNCHANGED <<stores, admin_count, query_words, movies, movies_info, descriptions,
                   response>>
    /\ UNCHANGED update_run

\* lines 216-226 and 253-274: the vocabulary lookup and the rest of
\* analyze_request
ChatLookup ==
    /\ pc = "lookup"
    /\ \E rows \in LookupResults(significant_words, filtered_words) :
          filters' = analyze_request(user_input, rows)
    /\ pc' = "search"
    /\ UNCHANGED <<stores, admin_count, user_input, filtered_words, query_words, movies,
                   movies_info, descriptions, response>>
    /\ UNCHANGED update_run

\* line 506
ChatSearch ==
    /\ pc = "search"
    /\ search_movies_optimized(filters)
    /\ pc' = "respond"
    /\ UNCHANGED <<stores, admin_count, user_input, filtered_words, filters, descriptions,
                   response>>
    /\ UNCHANGED update_run

\* lines 511-515 and 632
ChatRespond ==
    /\ pc = "respond"
    /\ response' = generate_response(movies_info)
    /\ descriptions' = Descriptions(movies_info)
    /\ pc' = IF response' = "TypeError" THEN "crashed" ELSE "replied"
    /\ UNCHANGED <<stores, admin_count, user_input, filtered_words, filters, query_words,
                   movies, movies_info>>
    /\ UNCHANGED update_run

NextSteps ==
    Quit \/ AddWord \/ AddStop \/ ChatRead \/ ChatLookup \/ ChatSearch \/ ChatRespond \/ Prompt

SpecSteps == Init /\ [][NextSteps]_vars

(***************************************************************************)
(* Runs of the command loop made of 'add word' commands only.              *)
(***************************************************************************)
InitVocabulary ==
    /\ significant_words = initialize_significant_words
    /\ stop_words = initialize_stop_words
    /\ movies_table = <<>>
    /\ pc = "prompt"
    /\ admin_count = 0
    /\ user_input = ""
    /\ NoRequest
    /\ response = ""
    /\ update_run = NoUpdateRun

AddWords == AddWordCommand(MaxUpserts)

NextVocabulary == AddWords \/ Prompt

SpecVocabulary == InitVocabulary /\ [][NextVocabulary]_vars

(***************************************************************************)
(* Launches of the program on the database file of earlier runs:           *)
(* initialize_db (lines 100-148), then administrative commands and quit.   *)
(***************************************************************************)
\* BootstrapVocabulary seeding whatever the table holds
BootstrapVocabularyAlways(table) == executemany(table, words_to_insert)

\* lines 125-128: the vocabulary is seeded when its table has no row
BootstrapVocabulary(table) ==
    IF DOMAIN table = {} THEN executemany(table, words_to_insert) ELSE table

\* lines 130-133: the stop words are seeded when their table has no row
BootstrapStopWords(stops) == IF stops = {} THEN STOP_WORDS ELSE stops

\* the vocabulary tables a launch may find in the database file
FoundVocabularies ==
    {EmptyTable,
     initialize_significant_words,
     InsertOrReplace(initialize_significant_words, "action", "theme", "polar", 1),
     InsertOrReplace(EmptyTable, "zz", "genre", "polar", 1)}

\* the stop-word tables a launch may find in the database file
FoundStopWords == {{}, STOP_WORDS, STOP_WORDS \cup {"action"}, {"zz"}}

InitBootstrap ==
    /\ significant_words \in FoundVocabularies
    /\ stop_words \in FoundStopWords
    /\ movies_table \in LoopCatalogs
    /\ pc = "start"
    /\ admin_count = 0
    /\ user_input = ""
    /\ NoRequest
    /\ response = ""
    /\ update_run = NoUpdateRun

\* main down to line 592 at a launch of the program: initialize_db seeds
\* the empty tables; an empty catalog is filled by the import from TMDB
\* (lines 140-142), with whatever rows the import brings
initialize_db ==
    /\ pc \in {"start", "stopped"}
    /\ significant_words' = BootstrapVocabulary(significant_words)
    /\ stop_words' = BootstrapStopWords(stop_words)
    /\ movies_table' \in IF movies_table = <<>> THEN LoopCatalogs ELSE {movies_table}
    /\ pc' = "prompt"
    /\ user_input' = ""
    /\ response' = "ready"
    /\ UNCHANGED <<admin_count, request>>
    /\ UNCHANGED update_run

NextBootstrap == initialize_db \/ AddWords \/ AddStop \/ Prompt \/ Quit

SpecBootstrap == InitBootstrap /\ [][NextBootstrap]_vars

(***************************************************************************)
(* search_movies_optimized called on its own, with any filters.            *)
(***************************************************************************)
FilterSpace ==
    {[DefaultFilters EXCEPT !.genres = g, !.themes = t, !.year = y, !.period = p,
                            !.rating_min = r, !.sort_by = sb] :
        g \in {<<>>, <<"action">>, <<"comédie", "drame">>, <<"science_fiction">>},
        t \in {<<>>, <<"sport">>, <<"polar">>},
        y \in {None, Some(2000)},
        p \in {None, Some("recent"), Some("classique"), Some("moderne")},
        r \in {None, Some(65), Some(70)},
        sb \in {"weighted_score", "popularity", "rating", "autre"}}

InitSearch ==
    /\ significant_words = initialize_significant_words
    /\ stop_words = initialize_stop_words
    /\ movies_table \in Catalogs
    /\ pc = "call"
    /\ admin_count = 0
    /\ user_input = ""
    /\ NoRequest
    /\ response = ""
    /\ update_run = NoUpdateRun

SearchCall ==
    /\ pc = "call"
    /\ \E f \in FilterSpace :
          /\ filters' = f
          /\ search_movies_optimized(f)
    /\ pc' = "returned"
    /\ UNCHANGED <<stores, admin_count, user_input, filtered_words, descriptions, response>>
    /\ UNCHANGED update_run

NextSearch == SearchCall

SpecSearch == InitSearch /\ [][NextSearch]_vars

(***************************************************************************)
(* search_movies_optimized called on its own with filters that also vary   *)
(* in the fields prefer_unknown, keywords, mood and exclude_genres.        *)
(***************************************************************************)
FilterCores ==
    {[DefaultFilters EXCEPT !.genres = g, !.themes = t, !.year = y, !.period = p,
                            !.rating_min = r, !.sort_by = sb] :
        g \in {<<>>, <<"action">>},
        t \in {<<>>, <<"sport">>},
        y \in {None, Some(2000)},
        p \in {None, Some("classique")},
        r \in {None, Some(65)},
        sb \in {"weighted_score", "popularity", "rating"}}

FilterVariants(f) ==
    {[f EXCEPT !.prefer_unknown = pu, !.keywords = kw, !.mood = m, !.exclude_genres = ex] :
        pu \in BOOLEAN,
        kw \in {<<>>, <<"action", "combat">>},
        m \in {None, Some("intense")},
        ex \in {<<>>, <<"horreur">>}}

SearchVariantCall ==
    /\ pc = "call"
    /\ \E core \in FilterCores :
          \E f \in FilterVariants(core) :
              /\ filters' = f
              /\ search_movies_optimized(f)
    /\ pc' = "returned"
    /\ UNCHANGED <<stores, admin_count, user_input, filtered_words, descriptions, response>>
    /\ UNCHANGED update_run

NextSearchVariants == SearchVariantCall

SpecSearchVariants == InitSearch /\ [][NextSearchVariants]_vars

(***************************************************************************)
(* search_movies_optimized called on its own when running the query fails: *)
(* cursor.execute (line 428) raises a sqlite3 error, for instance because  *)
(* a writer holds the database file or the movies table of an older file   *)
(* lacks a column.                                                         *)
(***************************************************************************)
QueryErrors == {"database is locked", "no such column: release_year", "disk I/O error"}

\* the except clause letting the exception through
SearchExceptReraise(e) == [raises |-> Some(e), returns |-> <<>>]

\* lines 437-440: except Exception logs the error and returns []
SearchExcept(e) == [raises |-> None, returns |-> <<>>]

\* lines 365-410 run, line 428 raises e, lines 437-440 handle it; line 429
\* is not reached, so no row is fetched
SearchCallRaising ==
    /\ pc = "call"
    /\ \E f \in FilterSpace, e \in QueryErrors :
          LET handled == SearchExcept(e)
          IN  /\ filters' = f
              /\ query_words' = extract_significant_words(join(f.keywords))
              /\ movies' = <<>>
              /\ movies_info' = handled.returns
              /\ pc' = IF handled.raises = None THEN "returned" ELSE "raised"
    /\ UNCHANGED <<stores, admin_count, user_input, filtered_words, descriptions, response>>
    /\ UNCHANGED update_run

NextSearchError == SearchCallRaising

SpecSearchError == InitSearch /\ [][NextSearchError]_vars

(***************************************************************************)
(* analyze_request called on its own, over the seeded stores.              *)
(***************************************************************************)
InitAnalyze ==
    /\ significant_words = initialize_significant_words
    /\ stop_words = initialize_stop_words
    /\ movies_table = <<>>
    /\ pc = "call"
    /\ admin_count = 0
    /\ user_input = ""
    /\ NoRequest
    /\ response = ""
    /\ update_run = NoUpdateRun

AnalyzeCall ==
    /\ pc = "call"
    /\ \E text \in AnalyzeTexts :
          /\ user_input' = text
          /\ filtered_words' = FilteredWords(lower(text), stop_words)
          /\ \E rows \in LookupResults(significant_words, filtered_words') :
                filters' = analyze_request(text, rows)
    /\ pc' = "analyzed"
    /\ UNCHANGED <<stores, admin_count, query_words, movies, movies_info, descriptions,
                   response>>
    /\ UNCHANGED update_run

NextAnalyze == AnalyzeCall

SpecAnalyze == InitAnalyze /\ [][NextAnalyze]_vars

(***************************************************************************)
(* generate_response called on its own, over lists of display records (and *)
(* of None, which format_movie_result returns for a row it cannot format). *)
(***************************************************************************)
Line50 == "0123456789abcdefghijABCDEFGHIJklmnopqrstKLMNOPQRST"

\* a text of 250 characters
OverviewText == Line50 \o Line50 \o Line50 \o Line50 \o Line50

OverviewLengths == {0, 1, 100, 196, 197, 198, 199, 200, 201, 250}

Overviews == {SubSeq(OverviewText, 1, n) : n \in OverviewLengths}

\* records with the keys of the dictionary format_movie_result builds
DisplayRecords ==
    {[titre |-> "Rocky", annee |-> Some(1976), genre |-> "Drame", note |-> 81,
      vote_count |-> 3000, popularite |-> 300, description |-> o,
      weighted_score |-> 246000] : o \in Overviews}

ResponseInputs ==
    UNION {[1..k -> {None} \cup {Some(r) : r \in DisplayRecords}] : k \in 0..MaxShown}

InitResponse ==
    /\ significant_words = initialize_significant_words
    /\ stop_words = initialize_stop_words
    /\ movies_table = <<>>
    /\ pc = "call"
    /\ admin_count = 0
    /\ user_input = ""
    /\ filtered_words = <<>>
    /\ filters = DefaultFilters
    /\ query_words = <<>>
    /\ movies = <<>>
    /\ movies_info \in ResponseInputs
    /\ descriptions = <<>>
    /\ response = ""
    /\ update_run = NoUpdateRun

ResponseCall ==
    /\ pc = "call"
    /\ response' = generate_response(movies_info)
    /\ descriptions' = Descriptions(movies_info)
    /\ pc' = IF response' = "TypeError" THEN "raised" ELSE "responded"
    /\ UNCHANGED <<stores, admin_count, user_input, filtered_words, filters, query_words,
                   movies, movies_info>>
    /\ UNCHANGED update_run

NextResponse == ResponseCall

SpecResponse == InitResponse /\ [][NextResponse]_vars

(***************************************************************************)
(* update_database of mapping.py (lines 206-251): the loop over the movies *)
(* of the catalog, one action per way an iteration can end.  The pause of  *)
(* lines 225-227 changes no value.  The rows of the model hold none of the *)
(* columns last_updated and is_complete, and the values TMDB gives for a   *)
(* movie are taken to be those the catalog holds.                          *)
(***************************************************************************)
\* line 238: the number of errors at which the loop is left
ErrorLimit == 5

\* lines 216-220: existing_movies is one entry per row of the catalog (the
\* rows are named by their position), both counters start at 0
StartedUpdateRun(table) ==
    [state |-> "loop", existing_movies |-> [i \in 1..Len(table) |-> i], position |-> 0,
     updates_count |-> 0, errors_count |-> 0, outcomes |-> <<>>]

InitUpdate ==
    /\ significant_words = initialize_significant_words
    /\ stop_words = initialize_stop_words
    /\ movies_table \in Catalogs
    /\ pc = "call"
    /\ admin_count = 0
    /\ user_input = ""
    /\ NoRequest
    /\ response = ""
    /\ update_run = StartedUpdateRun(movies_table)

\* line 222: the loop has a next movie to take
HasNextMovie ==
    /\ update_run.state = "loop"
    /\ update_run.position < Len(update_run.existing_movies)

\* the loop goes on to the next movie, having noted what this one did
NextMovie(run, outcome) ==
    [run EXCEPT !.position = @ + 1, !.outcomes = Append(@, outcome)]

\* lines 229-230: get_movie_complete_info caught the failure of the API
\* itself (lines 142-144) and gave None: nothing is counted
MovieWithoutInfo ==
    /\ HasNextMovie
    /\ update_run' = NextMovie(update_run, "no_info")
    /\ UNCHANGED <<stores, pc, admin_count, user_input, request, response>>

\* lines 231-233: update_movie_if_needed wrote the row
MovieUpdated ==
    /\ HasNextMovie
    /\ update_run' = [NextMovie(update_run, "updated") EXCEPT !.updates_count = @ + 1]
    /\ UNCHANGED <<stores, pc, admin_count, user_input, request, response>>

\* lines 231 and 233: update_movie_if_needed gave False
MovieUpToDate ==
    /\ HasNextMovie
    /\ update_run' = NextMovie(update_run, "up_to_date")
    /\ UNCHANGED <<stores, pc, admin_count, user_input, request, response>>

\* lines 235-241: an exception left update_movie_if_needed or the commit
MovieRaises ==
    /\ HasNextMovie
    /\ update_run' =
          [NextMovie(update_run, "error") EXCEPT
              !.errors_count = @ + 1,
              !.state = IF update_run.errors_count + 1 >= ErrorLimit
                        THEN "aborted" ELSE "loop"]
    /\ UNCHANGED <<stores, pc, admin_count, user_input, request, response>>

\* lines 222 and 243: no movie is left
UpdateFinished ==
    /\ update_run.state = "loop"
    /\ update_run.position = Len(update_run.existing_movies)
    /\ update_run' = [update_run EXCEPT !.state = "finished"]
    /\ UNCHANGED <<stores, pc, admin_count, user_input, request, response>>

NextUpdate ==
    MovieWithoutInfo \/ MovieUpdated \/ MovieUpToDate \/ MovieRaises \/ UpdateFinished

SpecUpdate == InitUpdate /\ [][NextUpdate]_vars

(***************************************************************************)
(* Properties of the request analysis.                                     *)
(***************************************************************************)
\* a chat request has been handled by the command loop
ChatDone == pc \in {"replied", "crashed"} /\ response \in {"no_results", "results", "TypeError"}

Analyzed == pc = "analyzed"

\* the words of a text: its maximal runs of letters, digits and underscores,
\* in lower case
WordsOf(text) == Range(findall_words(lower(text)))

AllDigits(word) == \A i \in 1..Len(word) : Char(word, i) \in Digits

\* C1: every token get_significant_words hands to the vocabulary lookup, and
\* every token extract_significant_words returns, has at least 3 characters,
\* is not purely numeric and is not in the stop-word store (nor, for
\* extract_significant_words, in STOP_WORDS).
C1_SignificantTokens ==
    ChatDone =>
        /\ \A n \in 1..Len(filtered_words) :
              /\ Len(filtered_words[n]) >= 3
              /\ ~AllDigits(filtered_words[n])
              /\ filtered_words[n] \notin stop_words
        /\ \A n \in 1..Len(query_words) :
              /\ Len(query_words[n]) >= 3
              /\ ~AllDigits(query_words[n])
              /\ query_words[n] \notin stop_words
              /\ query_words[n] \notin STOP_WORDS

\* C1 witness: a request holding a word added by 'add stop' was handled, and
\* other tokens of it went to the lookup and came back from
\* extract_significant_words
C1_Witness ==
    /\ ChatDone
    /\ \E w \in WordsOf(user_input) : w \in stop_words \ STOP_WORDS
    /\ filtered_words # <<>>
    /\ query_words # <<>>

\* C2: the year analyze_request stores in filters.year is unset or an
\* integer y with 1900 <= y <= current year; 'de 1899' and 'en 2099' yield
\* no year.
C2_YearRange ==
    Analyzed =>
        /\ filters.year # None => (1900 <= filters.year[1] /\ filters.year[1] <= current_year)
        /\ user_input \in {"de 1899", "en 2099"} => filters.year = None

\* C2 witness: a year was extracted from a text that also holds 2099
C2_Witness ==
    /\ Analyzed
    /\ Contains(user_input, "2099")
    /\ filters.year = Some(2000)

\* the text has a word that is an indicator word of the group
HasIndicatorWord(text, group) ==
    \E w \in WordsOf(text) : w \in Range(QUALITY_INDICATORS[group])

\* C3: a request with both a 'popular' and a 'critically acclaimed' indicator
\* word gets sort_by = popularity, rating_min unset and prefer_unknown false.
C3_PopularBeatsCritique ==
    (Analyzed /\ HasIndicatorWord(user_input, "populaire")
              /\ HasIndicatorWord(user_input, "critique")) =>
        /\ filters.sort_by = "popularity"
        /\ filters.rating_min = None
        /\ filters.prefer_unknown = FALSE

\* C3 witness: the request 'connu Oscar' was analyzed
C3_Witness ==
    /\ Analyzed
    /\ HasIndicatorWord(user_input, "populaire")
    /\ HasIndicatorWord(user_input, "critique")
    /\ filters.sort_by = "popularity"

\* C4: a request with an 'under-the-radar' indicator word and no 'popular'
\* and no 'critically acclaimed' indicator word gets prefer_unknown = true,
\* rating_min = 6.5 and sort_by = weighted_score.
C4_UnderTheRadar ==
    (Analyzed /\ HasIndicatorWord(user_input, "inconnu")
              /\ ~HasIndicatorWord(user_input, "populaire")
              /\ ~HasIndicatorWord(user_input, "critique")) =>
        /\ filters.prefer_unknown = TRUE
        /\ filters.rating_min = Some(65)
        /\ filters.sort_by = "weighted_score"

\* C5: a request in which no word is a quality indicator word of any group
\* keeps sort_by = weighted_score, rating_min unset and prefer_unknown false.
C5_NoIndicatorDefaults ==
    (Analyzed /\ ~HasIndicatorWord(user_input, "populaire")
              /\ ~HasIndicatorWord(user_input, "critique")
              /\ ~HasIndicatorWord(user_input, "inconnu")) =>
        /\ filters.sort_by = "weighted_score"
        /\ filters.rating_min = None
        /\ filters.prefer_unknown = FALSE

\* the text holds four digits in a row
HasFourDigits(text) ==
    \E i \in 1..(Len(text) - 3) : AllDigits(SubSeq(text, i, i + 3))

\* no indicator of any quality group occurs in the text
NoQualitySignal(text) ==
    \A group \in {"populaire", "critique", "inconnu"} :
        \A i \in 1..Len(QUALITY_INDICATORS[group]) :
            ~Contains(lower(text), QUALITY_INDICATORS[group][i])

\* the request holds the word 'action' and no other vocabulary word, no year
\* and no quality signal, and the vocabulary store is the seeded one
OnlyAction ==
    /\ ChatDone
    /\ significant_words = initialize_significant_words
    /\ "action" \in WordsOf(user_input)
    /\ \A w \in WordsOf(user_input) \ {"action"} : w \notin DOMAIN significant_words
    /\ ~HasFourDigits(user_input)
    /\ NoQualitySignal(user_input)

ActionFilters ==
    /\ filters.genres = <<"action">>
    /\ filters.themes = <<>>
    /\ filters.sort_by = "weighted_score"
    /\ filters.rating_min = None

Returned == pc = "returned"

\* the rowids of the fetched rows
FetchedIds == {movies[n].rowid : n \in 1..Len(movies)}

\* the weighted score of a catalog row, in ten-thousandths
ScoreOf(r) == r.vote_average * r.vote_count + 10 * r.popularity

AllDefault(f) ==
    /\ f.genres = <<>> /\ f.themes = <<>> /\ f.year = None /\ f.period = None
    /\ f.rating_min = None /\ f.sort_by = "weighted_score"

\* C7: with all-default filters no catalog row is excluded by the predicate:
\* the call returns min(5, size of the catalog) results, for distinct rows of
\* the catalog, in non-increasing weighted_score order, and no catalog row
\* left out has a higher weighted_score than a returned one.
C7_DefaultFiltersUnfiltered ==
    (Returned /\ AllDefault(filters)) =>
        /\ Len(movies_info) = Len(movies)
        /\ Len(movies) = Min(5, Len(movies_table))
        /\ Cardinality(FetchedIds) = Len(movies)
        /\ \A n \in 1..Len(movies) :
              /\ movies[n].rowid \in 1..Len(movies_table)
              /\ movies[n].title = movies_table[movies[n].rowid].title
              /\ movies[n].weighted_score = ScoreOf(movies_table[movies[n].rowid])
        /\ \A n \in 1..(Len(movies) - 1) :
              movies[n].weighted_score >= movies[n + 1].weighted_score
        /\ \A i \in (1..Len(movies_table)) \ FetchedIds : \A n \in 1..Len(movies) :
              ScoreOf(movies_table[i]) <= movies[n].weighted_score

\* C7 witness: default filters over a catalog of more than 5 rows, one of
\* them without release year, returned 5 rows
C7_Witness ==
    /\ Returned /\ AllDefault(filters)
    /\ Len(movies_table) > 5
    /\ \E i \in 1..Len(movies_table) : movies_table[i].release_year = None
    /\ Len(movies_info) = 5

\* C8: the number of results returned is min(5, number of catalog rows that
\* satisfy the predicate), and never exceeds 5.
C8_ResultCount ==
    Returned =>
        /\ Len(movies_info) = Min(5, Cardinality(Matching(movies_table, filters)))
        /\ Len(movies_info) <= 5

\* C8 witness: a rating_min filter matched 6 rows and 5 results came back
C8_Witness ==
    /\ Returned
    /\ filters.rating_min # None
    /\ Cardinality(Matching(movies_table, filters)) = 6
    /\ Len(movies_info) = 5

\* the field the claim names for a sort_by
ClaimedKey(r, sort_by) ==
    IF sort_by = "popularity" THEN r.popularity
    ELSE IF sort_by = "rating" THEN r.vote_average
    ELSE ScoreOf(r)

\* C9: the fetched rows are in non-increasing order of popularity
\* (sort_by = popularity), vote_average (sort_by = rating) or weighted_score
\* (any other sort_by), and no matching row left out by the limit ranks
\* strictly higher on that key than a returned row.
C9_Ordering ==
    Returned =>
        /\ \A n \in 1..(Len(movies) - 1) :
              ClaimedKey(movies[n], filters.sort_by) >= ClaimedKey(movies[n + 1], filters.sort_by)
        /\ \A i \in Matching(movies_table, filters) \ FetchedIds : \A n \in 1..Len(movies) :
              ClaimedKey(movies_table[i], filters.sort_by) <= ClaimedKey(movies[n], filters.sort_by)

\* C9 witness: a rating sort cut a row off, and the rating order is not the
\* weighted_score order
C9_Witness ==
    /\ Returned
    /\ filters.sort_by = "rating"
    /\ Len(movies) = 5
    /\ Matching(movies_table, filters) \ FetchedIds # {}
    /\ movies[1].vote_average > movies[5].vote_average
    /\ \E n \in 1..4 : movies[n].weighted_score < movies[n + 1].weighted_score

\* C10: the weighted_score of every fetched row is
\* vote_average * (vote_count / 1000) + popularity / 100 whatever the filters
\* (in ten-thousandths, with vote_average and popularity in tenths:
\* vote_average * vote_count + 10 * popularity); for 8.0, 1000 and 50 it is 8.5.
C10_WeightedScore ==
    Returned =>
        \A n \in 1..Len(movies) :
            /\ movies[n].weighted_score =
                  movies[n].vote_average * movies[n].vote_count + 10 * movies[n].popularity
            /\ (movies[n].vote_average = 80 /\ movies[n].vote_count = 1000
                /\ movies[n].popularity = 500) => movies[n].weighted_score = 85000

\* C10 witness: the row of the example was fetched under a filter, next to a
\* row whose vote_count is no multiple of 1000
C10_Witness ==
    /\ Returned
    /\ ~AllDefault(filters)
    /\ \E n \in 1..Len(movies) :
          /\ movies[n].vote_average = 80 /\ movies[n].vote_count = 1000
          /\ movies[n].popularity = 500 /\ movies[n].weighted_score = 85000
    /\ \E n \in 1..Len(movies) : movies[n].vote_count % 1000 # 0

(***************************************************************************)
(* Failure of the catalog query (specification SpecSearchError).           *)
(***************************************************************************)
\* C11: when running the catalog query raises, search_movies_optimized
\* returns an empty list and the exception does not reach its caller.
C11_ErrorContained ==
    /\ pc # "raised"
    /\ Returned => movies_info = <<>>

\* C11 witness: the call returned nothing from a catalog holding rows the
\* filters select
C11_Witness ==
    /\ Returned
    /\ Matching(movies_table, filters) # {}
    /\ filters.genres # <<>>
    /\ movies_info = <<>>

(***************************************************************************)
(* Properties of generate_response (specification SpecResponse).           *)
(***************************************************************************)
Responded == pc = "responded"

\* C12: the description shown for a result has at most 200 characters: an
\* overview of at most 200 characters is shown unchanged, a longer one as its
\* first 197 characters followed by '...', 200 characters in all.
C12_DescriptionLength ==
    Responded =>
        /\ Len(descriptions) = Len(movies_info)
        /\ \A n \in 1..Len(descriptions) :
              LET overview == movies_info[n][1].description
                  shown == descriptions[n]
              IN  /\ Len(shown) <= 200
                  /\ Len(overview) <= 200 => shown = overview
                  /\ Len(overview) > 200 =>
                        /\ Len(shown) = 200
                        /\ \A i \in 1..197 : Char(shown, i) = Char(overview, i)
                        /\ \A i \in 198..200 : Char(shown, i) = "."

\* C12 witness: an overview of 250 characters and one of 200 were shown
C12_Witness ==
    /\ Responded
    /\ \E n \in 1..Len(movies_info) : Len(movies_info[n][1].description) = 250
    /\ \E n \in 1..Len(movies_info) : Len(movies_info[n][1].description) = 200
    /\ \A n \in 1..Len(descriptions) : Len(descriptions[n]) = 200

(***************************************************************************)
(* Properties of the formatting of results.                                *)
(***************************************************************************)
\* the display record that keeps every field of a fetched row, a missing
\* field (a NULL release_year) held as the null sentinel
FullRecord(movie) ==
    [titre |-> movie.title, annee |-> movie.release_year, genre |-> movie.genres,
     note |-> movie.vote_average, vote_count |-> movie.vote_count,
     popularite |-> movie.popularity, description |-> movie.overview,
     weighted_score |-> movie.weighted_score]

\* C13: every fetched row is formatted into a display record that keeps the
\* row's fields, a missing field holding the null sentinel; a row with a
\* missing field does not keep the other rows of the batch from being
\* formatted.
C13_PerFieldSentinel ==
    Returned =>
        /\ Len(movies_info) = Len(movies)
        /\ \A n \in 1..Len(movies) : movies_info[n] = Some(FullRecord(movies[n]))

\* C14: chat_with_bot ends by returning a response, so that main goes on to
\* read the next command; it never raises.
C14_ChatReturns ==
    /\ pc # "crashed"
    /\ ChatDone => response \in {"no_results", "results"}

(***************************************************************************)
(* Properties of the vocabulary store (specification SpecVocabulary).      *)
(***************************************************************************)
\* the entry the last row written for the word carries
LastWrite(rows, word) ==
    LET n == CHOOSE i \in 1..Len(rows) :
                 /\ rows[i][1] = word
                 /\ \A j \in (i + 1)..Len(rows) : rows[j][1] # word
    IN  [category |-> rows[n][2], subcategory |-> rows[n][3], weight |-> rows[n][4]]

\* the store holds the seeded words, each with its last seeded values
Seeded ==
    /\ DOMAIN significant_words = {words_to_insert[i][1] : i \in 1..Len(words_to_insert)}
    /\ \A w \in DOMAIN significant_words :
          significant_words[w] = LastWrite(words_to_insert, w)

\* a successful 'add word' step leaves one entry for its word, carrying the
\* category and subcategory of the command and weight 1, touches no other
\* entry, and changes nothing when the store already held that entry
UpsertStep ==
    (pc = "prompt" /\ response' = "word_added") =>
        LET parts == split(lower(user_input'), 4)
            entry == [category |-> parts[4], subcategory |-> parts[5], weight |-> 1]
        IN  /\ DOMAIN significant_words' = DOMAIN significant_words \cup {parts[3]}
            /\ significant_words'[parts[3]] = entry
            /\ \A w \in DOMAIN significant_words \ {parts[3]} :
                  significant_words'[w] = significant_words[w]
            /\ (parts[3] \in DOMAIN significant_words /\ significant_words[parts[3]] = entry)
                  => significant_words' = significant_words

\* C15: after seeding and any 'add word' commands the vocabulary store holds
\* one entry per word, with the category, subcategory and weight of the last
\* write for that word; the same 'add word' run twice leaves the store as
\* one run does.
C15_Upsert == Seeded /\ [][UpsertStep]_vars

\* C15 witness: two 'add word' commands have succeeded, the last one
\* replacing the seeded entry of 'action'
C15_Witness ==
    /\ pc = "replied"
    /\ response = "word_added"
    /\ admin_count = 2
    /\ user_input = "add word action theme polar"
    /\ significant_words["action"] = [category |-> "theme", subcategory |-> "polar", weight |-> 1]

(***************************************************************************)
(* Properties of the administrative commands (specification Spec).         *)
(***************************************************************************)
\* the command line is the command 'add <name>' followed by arguments
CommandArgs(input, name) ==
    LET parts == split(lower(input), -1)
    IN  IF Len(parts) >= 2 /\ parts[1] = "add" /\ parts[2] = name
        THEN Some(Len(parts) - 2)
        ELSE None

\* the command line just handled is malformed: 'add word' with fewer than
\* three arguments, or 'add stop' with other than one argument
Malformed ==
    \/ CommandArgs(user_input, "word") # None /\ CommandArgs(user_input, "word")[1] < 3
    \/ CommandArgs(user_input, "stop") # None /\ CommandArgs(user_input, "stop")[1] # 1

\* C16: a malformed 'add word' or 'add stop' command is answered with the
\* format hint, leaves both stores as seeded, and the loop continues.
C16_FormatHint ==
    (pc \in {"replied", "crashed", "stopped"} /\ Malformed) =>
        /\ pc = "replied"
        /\ response \in {"format_hint_word", "format_hint_stop"}
        /\ admin_count = 0 =>
              /\ significant_words = initialize_significant_words
              /\ stop_words = initialize_stop_words

(***************************************************************************)
(* Further properties of the request analysis (specification SpecAnalyze). *)
(***************************************************************************)
\* the positions of the text where a year pattern matches with a value
\* within [1900, current year]
InRangeHits(prefix, text) ==
    {i \in 1..Len(text) :
        /\ MatchesAt(text, prefix, i)
        /\ LET y == int(SubSeq(text, i + Len(prefix), i + Len(prefix) + 3))
           IN  1900 <= y /\ y <= current_year}

\* the first in-range match, taking the patterns in order and, for a
\* pattern, its occurrences from left to right
RECURSIVE FirstInRange(_, _)
FirstInRange(text, k) ==
    IF k > Len(year_patterns) THEN None
    ELSE LET prefix == year_patterns[k]
             hits == InRangeHits(prefix, text)
         IN  IF hits = {} THEN FirstInRange(text, k + 1)
             ELSE LET i == CHOOSE h \in hits : \A g \in hits : h <= g
                  IN  Some(int(SubSeq(text, i + Len(prefix), i + Len(prefix) + 3)))

\* C17: the year is the first in-range match over all occurrences of the
\* four patterns, and is unset only when no occurrence is in range.
C17_FirstInRangeYear ==
    Analyzed => filters.year = FirstInRange(lower(user_input), 1)

\* the tokens given to the lookup that are vocabulary words, one per
\* occurrence, in token order
MatchingTokens ==
    LET InVocabulary(word) == word \in DOMAIN significant_words
    IN  SelectSeq(filtered_words, InVocabulary)

\* C18: filters.keywords holds one entry per matching token occurrence, in
\* token order.
C18_KeywordPerOccurrence ==
    Analyzed => filters.keywords = MatchingTokens

\* the subcategories of a category, each once, in the order their first
\* matching token comes in the request
RECURSIVE FirstSeen(_, _, _)
FirstSeen(tokens, category, seen) ==
    IF tokens = <<>> THEN seen
    ELSE LET entry == significant_words[Head(tokens)]
         IN  IF entry.category = category /\ entry.subcategory \notin Range(seen)
             THEN FirstSeen(Tail(tokens), category, Append(seen, entry.subcategory))
             ELSE FirstSeen(Tail(tokens), category, seen)

\* C19: genres and themes list every matched subcategory once, ordered by
\* the position of the first token that matched it.
C19_FirstSeenOrder ==
    Analyzed =>
        /\ filters.genres = FirstSeen(MatchingTokens, "genre", <<>>)
        /\ filters.themes = FirstSeen(MatchingTokens, "theme", <<>>)

(***************************************************************************)
(* Further properties of search_movies_optimized (specification            *)
(* SpecSearch).                                                            *)
(***************************************************************************)
\* C20: with filters.genres non-empty, the genres field of every fetched
\* row contains, without regard to case, one of the requested genre names,
\* and the row satisfies the year and rating clauses as well.
C20_GenreSubstring ==
    (Returned /\ filters.genres # <<>>) =>
        \A n \in 1..Len(movies) :
            /\ \E g \in 1..Len(filters.genres) :
                  Contains(lower(movies[n].genres), lower(filters.genres[g]))
            /\ YearClause(movies[n], filters)
            /\ RatingClause(movies[n], filters)

(***************************************************************************)
(* Properties of the theme clause of chat requests (specification Spec).   *)
(***************************************************************************)
\* the words the vocabulary store assigns to one of the themes
StoreThemeWords(themes) ==
    {w \in DOMAIN significant_words :
        /\ significant_words[w].category = "theme"
        /\ significant_words[w].subcategory \in Range(themes)}

\* C21: with filters.themes non-empty, the overview or the title of every
\* fetched row contains a word the vocabulary store assigns to one of the
\* requested themes, for themes written by 'add word' as for seeded ones.
C21_ThemeWordsOfStore ==
    (ChatDone /\ filters.themes # <<>>) =>
        \A n \in 1..Len(movies) :
            \E w \in StoreThemeWords(filters.themes) :
                \/ Contains(lower(movies[n].overview), lower(w))
                \/ Contains(lower(movies[n].title), lower(w))

(***************************************************************************)
(* Properties of the release-year clause (specification SpecSearch).       *)
(***************************************************************************)
\* the restriction on release_year: the year when one is set, else the
\* range of the period 'recent' or 'classique', else none
YearRestriction(row, f) ==
    IF f.year # None THEN row.release_year = f.year
    ELSE IF f.period = Some("recent")
    THEN row.release_year # None /\ row.release_year[1] >= current_year - 2
    ELSE IF f.period = Some("classique")
    THEN row.release_year # None /\ row.release_year[1] <= current_year - 20
    ELSE TRUE

\* C22: the year takes precedence over the period: with a year set the rows
\* are those of that release_year whatever the period; without one, 'recent'
\* keeps release_year >= current year - 2, 'classique' release_year <=
\* current year - 20, and any other period restricts nothing.
C22_YearBeforePeriod ==
    Returned =>
        LET selected == {i \in 1..Len(movies_table) :
                            /\ GenreClause(movies_table[i], filters)
                            /\ ThemeClause(movies_table[i], filters)
                            /\ RatingClause(movies_table[i], filters)
                            /\ YearRestriction(movies_table[i], filters)}
        IN  /\ \A n \in 1..Len(movies) : movies[n].rowid \in selected
            /\ Len(movies) = Min(5, Cardinality(selected))

\* C22 witness: rows of the year 2000 were fetched for filters that also
\* hold the period 'recent'
C22_Witness ==
    /\ Returned
    /\ filters.year = Some(2000)
    /\ filters.period = Some("recent")
    /\ movies # <<>>
    /\ \E i \in 1..Len(movies_table) :
          movies_table[i].release_year # None /\ movies_table[i].release_year[1] >= current_year - 2

(***************************************************************************)
(* Frame of a chat request (specification Spec).                           *)
(***************************************************************************)
\* the step is the handling of a chat request
ChatStep == pc = "prompt" /\ response' \in {"no_results", "results", "TypeError"}

\* C23: handling a chat request leaves the vocabulary store, the stop-word
\* store and the catalog unchanged.
C23_ChatReadOnly == [][ChatStep => UNCHANGED stores]_vars

\* C23 witness: a request that matched vocabulary words and fetched rows
\* has been handled after an administrative command
C23_Witness ==
    /\ ChatDone
    /\ admin_count > 0
    /\ filters.keywords # <<>>
    /\ movies # <<>>

(***************************************************************************)
(* Properties of the steps of a chat request (specification SpecSteps).    *)
(***************************************************************************)
\* a chat request is between its read of the stop words and its response
InRequest == pc \in {"lookup", "search", "respond"}

\* the tokens kept are those the stop-word store, as it is now, lets through
SameStopWords == filtered_words = FilteredWords(lower(user_input), stop_words)

\* the filters are those the request text gives with the stores as they are
\* now, for some order of the lookup rows
FiltersOfRequest ==
    \E rows \in LookupResults(significant_words, FilteredWords(lower(user_input), stop_words)) :
        filters = analyze_request(user_input, rows)

\* C24: no 'add word' or 'add stop' takes effect between the start and the
\* end of a chat request; the stop-word read and the vocabulary read see the
\* same stores, and the filters of a request depend only on its text and on
\* the stores, not on earlier requests.
C24_RequestIsolated ==
    /\ [](InRequest => SameStopWords)
    /\ []((pc \in {"search", "respond"} \/ ChatDone) => FiltersOfRequest)
    /\ [][InRequest => UNCHANGED <<significant_words, stop_words>>]_vars

\* C24 witness: after an 'add stop action' and earlier commands, the request
\* 'action sport' was answered with the theme of 'sport' only
C24_Witness ==
    /\ ChatDone
    /\ "action" \in stop_words
    /\ user_input = "action sport"
    /\ filters.genres = <<>>
    /\ filters.themes = <<"sport">>

(***************************************************************************)
(* Precedence of the stop words (specification Spec).                      *)
(***************************************************************************)
\* the subcategories the keywords of the request carry for a category
KeywordSubcategories(category) ==
    {significant_words[filters.keywords[n]].subcategory :
        n \in {m \in 1..Len(filters.keywords) :
                  significant_words[filters.keywords[m]].category = category}}

BootstrapStep == pc \in {"start", "stopped"} /\ pc' = "prompt"

\* C26: initialize_db leaves a vocabulary store, and a stop-word store, that
\* holds at least one entry as it found it, so the entries written by
\* 'add word' and 'add stop' survive every later launch.
C26_SeedOnlyWhenEmpty ==
    [][BootstrapStep =>
          /\ DOMAIN significant_words # {} => significant_words' = significant_words
          /\ stop_words # {} => stop_words' = stop_words]_vars

\* C26 witness: the program has been launched again after an 'add word'
\* that replaced the seeded entry of 'action', and the entry is still there
C26_Witness ==
    /\ pc = "prompt"
    /\ response = "ready"
    /\ admin_count > 0
    /\ "action" \in DOMAIN significant_words
    /\ significant_words["action"].subcategory = "polar"
    /\ significant_words["action"].category = "genre"

(***************************************************************************)
(* Properties of the seeded vocabulary (specification SpecAnalyze).        *)
(***************************************************************************)
\* the words GENRE_MAPPING lists under the genre guerre
WarWords == {"guerre", "militaire", "bataille", "soldat", "armée", "combat"}

\* C27: after seeding, a word listed more than once has the entry of its
\* last seed occurrence; the six words of the genre guerre are stored as
\* theme guerre with weight 1, and no request yields 'guerre' in genres.
C27_LastSeedOccurrence ==
    /\ Seeded
    /\ \A w \in WarWords :
          /\ w \in DOMAIN significant_words
          /\ significant_words[w] = [category |-> "theme", subcategory |-> "guerre", weight |-> 1]
    /\ Analyzed => "guerre" \notin Range(filters.genres)

\* C27 witness: the request 'combat guerre' was analyzed and gave the theme
\* guerre and no genre
C27_Witness ==
    /\ Analyzed
    /\ user_input = "combat guerre"
    /\ filters.themes = <<"guerre">>
    /\ filters.genres = <<>>
    /\ Len(filters.keywords) = 2

(***************************************************************************)
(* The fields analyze_request never sets (specification SpecSteps).        *)
(***************************************************************************)
\* C28: the filters analyze_request returns have mood and period unset and
\* exclude_genres empty, so the query of a chat request restricts
\* release_year by an exact year only.
C28_NoPeriodFromText ==
    /\ (InRequest \/ ChatDone) =>
          /\ filters.mood = None
          /\ filters.period = None
          /\ filters.exclude_genres = <<>>
    /\ (pc = "respond" \/ ChatDone) =>
          LET selected == {i \in 1..Len(movies_table) :
                              /\ GenreClause(movies_table[i], filters)
                              /\ ThemeClause(movies_table[i], filters)
                              /\ RatingClause(movies_table[i], filters)
                              /\ filters.year # None =>
                                    movies_table[i].release_year = filters.year}
          IN  /\ \A n \in 1..Len(movies) : movies[n].rowid \in selected
              /\ Len(movies) = Min(5, Cardinality(selected))

\* C28 witness: the request 'classique 2000' fetched rows of the year 2000
\* with no period in its filters
C28_Witness ==
    /\ ChatDone
    /\ user_input = "classique 2000"
    /\ filters.year = Some(2000)
    /\ filters.period = None
    /\ movies # <<>>

(***************************************************************************)
(* The fields the query does not read (specification SpecSearchVariants).  *)
(***************************************************************************)
\* the filters with prefer_unknown, keywords, mood and exclude_genres put
\* back to their defaults
CoreOf(f) ==
    [f EXCEPT !.prefer_unknown = FALSE, !.keywords = <<>>, !.mood = None,
              !.exclude_genres = <<>>]

\* C29: the rows fetched, and their order, are rows and an order the same
\* catalog gives for the filters stripped of prefer_unknown, keywords, mood
\* and exclude_genres: the result depends on genres, themes, year, period,
\* rating_min and sort_by alone.
C29_ResultOfCoreFields ==
    Returned =>
        /\ movies \in FetchAll(movies_table, CoreOf(filters))
        /\ Len(movies_info) = Len(movies)

\* C29 witness: an under-the-radar filter set (prefer_unknown, rating_min
\* 6.5) with keywords and a mood fetched several rows
C29_Witness ==
    /\ Returned
    /\ filters.prefer_unknown
    /\ filters.rating_min = Some(65)
    /\ filters.keywords # <<>>
    /\ filters.mood # None
    /\ Len(movies) >= 3
    /\ \E n \in 1..Len(movies) : movies[n].popularity > 100

(***************************************************************************)
(* Properties of update_database.                                          *)
(***************************************************************************)
\* a movie of the run that was processed without an exception and with the
\* information of the API
ProcessedSuccessfully(outcome) == outcome \in {"updated", "up_to_date"}

\* C30: update_database gives up only after 5 per-movie errors in a row: when
\* the run has been aborted, no successfully processed movie lies between
\* two of the errors of the run
C30_AbortAfterErrorsInARow ==
    update_run.state = "aborted" =>
        LET outcomes == update_run.outcomes
        IN  \A i, j, k \in 1..Len(outcomes) :
               (i < j /\ j < k /\ outcomes[i] = "error" /\ outcomes[k] = "error")
                  => ~ProcessedSuccessfully(outcomes[j])

====
